---- MODULE Spec2Model ----
(***************************************************************************)
(* CocoPan store monitor: store_status_report.py.                          *)
(*                                                                         *)
(* main() probes every url of STORE_URLS, resolves the url to a stores row *)
(* (get_or_create_store), inserts one status_checks row per probe on a     *)
(* single sqlite connection, commits, inserts a summary_reports row and    *)
(* commits again.  save_status_check() is the stand-alone writer with the  *)
(* retry loop.                                                             *)
(*                                                                         *)
(* The sqlite file is modelled as the durable database `db` (what any      *)
(* other connection reads) and main's connection as `conn.view` (durable   *)
(* rows plus the rows of the open transaction).  Rows carry a `run` tag    *)
(* that is not a column: it records which invocation of main() inserted    *)
(* the row, so that per-run properties can be stated.                      *)
(*                                                                         *)
(* Further specifications over the same state:                             *)
(*   SpecSave   save_status_check() and its retry loop;                    *)
(*   SpecProbe  check_store_online() statement by statement, with the      *)
(*              browser session of the foodpanda branch and the page the   *)
(*              url serves;                                                *)
(*   SpecDash   load_data() of dashboard.py over tables with their         *)
(*              timestamp columns and a clock;                             *)
(*   SpecRace   two invocations of main() on one database file.            *)
(***************************************************************************)
EXTENDS Integers, Sequences, FiniteSets, TLC

\* ---- bounds of the model ------------------------------------------------
MaxRuns == 2
MaxRows == 7
MaxCalls == 2
MaxProbes == 2
MaxDashRows == 4
MaxRaceUrls == 2

\* ---- program constants --------------------------------------------------
max_retries == 5

None == "None"

\* ---- urls, names, platforms ---------------------------------------------
\* A url is its site and the last path segment (the slug).
Urls ==
  { [site |-> "foodpanda.ph",  slug |-> "cocopan-anonas"],
    [site |-> "food.grab.com", slug |-> "cocopan-recto"] }

RECURSIVE SeqsUpTo(_, _)
SeqsUpTo(S, n) ==
  IF n = 0 THEN { <<>> }
  ELSE LET shorter == SeqsUpTo(S, n - 1)
       IN  shorter \cup { Append(q, x) : q \in { r \in shorter : Len(r) = n - 1 }, x \in S }

\* platform = "foodpanda" if "foodpanda.ph" in url else "grabfood"
Platform(url) == IF url.site = "foodpanda.ph" THEN "foodpanda" ELSE "grabfood"

\* slug.replace('-', ' ').title()
SlugTitle(url) ==
  CASE url.slug = "cocopan-anonas" -> "Cocopan Anonas"
    [] url.slug = "cocopan-recto"  -> "Cocopan Recto"
    [] OTHER                       -> "Cocopan"

\* text of the page's h1 when the name scrape finds one
H1Text(url) ==
  CASE url.slug = "cocopan-anonas" -> "CocoPan - Anonas"
    [] url.slug = "cocopan-recto"  -> "CocoPan - Recto"
    [] OTHER                       -> "CocoPan"

\* outcomes of the name scrape of main()
Scrapes == { "h1", "no_h1", "h1_403", "request_error" }

ScrapeName(url, scrape) ==
  LET name == IF scrape = "h1" THEN H1Text(url) ELSE None
  IN  IF name = None THEN SlugTitle(url) ELSE name

\* ---- the probe ----------------------------------------------------------
\* What the network / the browser does when the url is probed.
FoodpandaOutcomes == { "render_error", "navigation_timeout", "closed_indicator", "no_indicator" }
GrabOutcomes == { "http_error", "network_error", "timeout", "banner_closed", "no_closed_banner" }

ProbeOutcomes(url) == IF Platform(url) = "foodpanda" THEN FoodpandaOutcomes ELSE GrabOutcomes

ProbeFailures == { "render_error", "navigation_timeout", "http_error", "network_error", "timeout" }

\* A mutant of ExcText: the handlers return no reason.
ExcText_none(outcome) == None

\* str(e) of the exception a failed fetch raises
ExcText(outcome) ==
  CASE outcome = "render_error"       -> "BrowserType.launch: Executable doesn't exist"
    [] outcome = "navigation_timeout" -> "Timeout 60000ms exceeded"
    [] outcome = "network_error"      -> "ConnectionError"
    [] outcome = "timeout"            -> "ReadTimeout"
    [] OTHER                          -> "Exception"

\* int((time.time() - start_time) * 1000): the shortest time the path takes,
\* the 10 s request timeout, the 60 s navigation timeout, the 3 s settle delay
ElapsedMs(outcome) ==
  CASE outcome = "timeout"            -> 10000
    [] outcome = "navigation_timeout" -> 60000
    [] outcome = "closed_indicator"   -> 3000
    [] outcome = "no_indicator"       -> 3000
    [] OTHER                          -> 0

\* A mutant of check_store_online: the static-page branch catches HTTPError only.
check_store_online_narrow(url, outcome, elapsed) ==
  IF Platform(url) = "foodpanda"
  THEN IF outcome \in { "render_error", "navigation_timeout" }
       THEN [raised |-> None, is_online |-> FALSE, response_time |-> elapsed,
             error_msg |-> ExcText(outcome), classified |-> FALSE]
       ELSE IF outcome = "closed_indicator"
       THEN [raised |-> None, is_online |-> FALSE, response_time |-> elapsed,
             error_msg |-> "Store shows as closed", classified |-> TRUE]
       ELSE [raised |-> None, is_online |-> TRUE, response_time |-> elapsed,
             error_msg |-> None, classified |-> TRUE]
  ELSE IF outcome = "http_error"
       THEN [raised |-> None, is_online |-> FALSE, response_time |-> elapsed,
             error_msg |-> "HTTP error", classified |-> FALSE]
       ELSE IF outcome \in { "network_error", "timeout" }
       THEN [raised |-> ExcText(outcome), is_online |-> FALSE, response_time |-> elapsed,
             error_msg |-> None, classified |-> FALSE]
       ELSE IF outcome = "banner_closed"
       THEN [raised |-> None, is_online |-> FALSE, response_time |-> elapsed,
             error_msg |-> "Status banner shows closed", classified |-> TRUE]
       ELSE [raised |-> None, is_online |-> TRUE, response_time |-> elapsed,
             error_msg |-> None, classified |-> TRUE]

\* check_store_online(url) -> (is_online, response_time, error_message).
\* `raised` is the exception that leaves the function (None: it returned),
\* `classified` tells whether the closed-indicator inspection was reached.
check_store_online(url, outcome, elapsed) ==
  IF Platform(url) = "foodpanda"
  THEN IF outcome \in { "render_error", "navigation_timeout" }
       THEN [raised |-> None, is_online |-> FALSE, response_time |-> elapsed,
             error_msg |-> ExcText(outcome), classified |-> FALSE]
       ELSE IF outcome = "closed_indicator"
       THEN [raised |-> None, is_online |-> FALSE, response_time |-> elapsed,
             error_msg |-> "Store shows as closed", classified |-> TRUE]
       ELSE [raised |-> None, is_online |-> TRUE, response_time |-> elapsed,
             error_msg |-> None, classified |-> TRUE]
  ELSE IF outcome = "http_error"
       THEN [raised |-> None, is_online |-> FALSE, response_time |-> elapsed,
             error_msg |-> "HTTP error", classified |-> FALSE]
       ELSE IF outcome \in { "network_error", "timeout" }
       THEN [raised |-> None, is_online |-> FALSE, response_time |-> elapsed,
             error_msg |-> ExcText(outcome), classified |-> FALSE]
       ELSE IF outcome = "banner_closed"
       THEN [raised |-> None, is_online |-> FALSE, response_time |-> elapsed,
             error_msg |-> "Status banner shows closed", classified |-> TRUE]
       ELSE [raised |-> None, is_online |-> TRUE, response_time |-> elapsed,
             error_msg |-> None, classified |-> TRUE]

\* ---- what a probe reads ---------------------------------------------------
\* A text is the sequence of its words.  str.lower(), word by word:
LowerWord(w) ==
  CASE w = "Temporarily" -> "temporarily"
    [] w = "Closed"      -> "closed"
    [] w = "CLOSED"      -> "closed"
    [] w = "Out"         -> "out"
    [] w = "Restaurant"  -> "restaurant"
    [] w = "Not"         -> "not"
    [] w = "Open"        -> "open"
    [] w = "Store"       -> "store"
    [] w = "Add"         -> "add"
    [] OTHER             -> w

Lower(text) == [k \in 1 .. Len(text) |-> LowerWord(text[k])]

\* sub in text
Contains(text, sub) ==
  \E k \in 0 .. Len(text) - Len(sub) : SubSeq(text, k + 1, k + Len(sub)) = sub

\* closed_indicators of the foodpanda branch, in the order of the list
closed_indicators ==
  << [kind |-> "text",   arg |-> << "Temporarily", "unavailable" >>],
     [kind |-> "text",   arg |-> << "Closed", "for", "now" >>],
     [kind |-> "text",   arg |-> << "Out", "of", "delivery", "area" >>],
     [kind |-> "text",   arg |-> << "Restaurant", "is", "closed" >>],
     [kind |-> "class",  arg |-> << "closed-banner" >>],
     [kind |-> "testid", arg |-> << "closed-banner" >>] >>

\* rendered pages: the texts of the elements, their classes, their data-testid values
NoMarks == [texts |-> { << "Add", "to", "cart" >> }, classes |-> {}, testids |-> {}]

RenderedPages ==
  { NoMarks,
    [NoMarks EXCEPT !.texts = @ \cup { << "Temporarily", "unavailable" >> }],
    [NoMarks EXCEPT !.texts = @ \cup { << "temporarily", "unavailable", "today" >> }],
    [NoMarks EXCEPT !.texts = @ \cup { << "Closed", "for", "now" >> }],
    [NoMarks EXCEPT !.texts = @ \cup { << "Out", "of", "delivery", "area" >> }],
    [NoMarks EXCEPT !.texts = @ \cup { << "Restaurant", "is", "closed" >> }],
    [NoMarks EXCEPT !.texts = @ \cup { << "Store", "closed", "today" >> }],
    [NoMarks EXCEPT !.classes = { << "closed-banner" >> }],
    [NoMarks EXCEPT !.testids = { << "closed-banner" >> }],
    [NoMarks EXCEPT !.texts = @ \cup { << "Closed", "for", "now" >> },
                    !.testids = { << "closed-banner" >> }] }

\* A mutant of query_selector: class and attribute selectors never match.
query_selector_text_only(dom, indicator) ==
  /\ indicator.kind = "text"
  /\ \E t \in dom.texts : Contains(Lower(t), Lower(indicator.arg))

\* page.query_selector(indicator) is not None.  A text= selector matches an
\* element whose text contains the fragment, whatever the case.
query_selector(dom, indicator) ==
  CASE indicator.kind = "text"   -> \E t \in dom.texts : Contains(Lower(t), Lower(indicator.arg))
    [] indicator.kind = "class"  -> indicator.arg \in dom.classes
    [] indicator.kind = "testid" -> indicator.arg \in dom.testids

\* where the try block of the foodpanda branch can raise
PlaywrightErrors == { "launch", "new_page", "goto", "wait_for_timeout", "query_selector" }

\* the probe outcome an exception of the try block stands for
PlaywrightFailure(e) == IF e = "goto" THEN "navigation_timeout" ELSE "render_error"

\* A mutant of playwright_exit: leaving the with block releases nothing.
playwright_exit_leak(b) == b

\* leaving `with sync_playwright() as p`: the driver stops, and a browser it
\* launched that is still open is closed with it
playwright_exit(b) ==
  IF b.state = "open" THEN [state |-> "closed", closes |-> b.closes + 1] ELSE b

\* browser.close()
browser_close(b) == [state |-> "closed", closes |-> b.closes + 1]

NoBrowser == [state |-> "none", closes |-> 0]

Open(b) == IF b.state = "open" THEN 1 ELSE 0

\* what requests.get returns or raises for a static page: the status of the
\* response, whether the page has a .status-banner element, and its text
StatusCodes == { 200, 304, 403, 500 }

BannerTexts ==
  { << "Open" >>, << "Closed", "for", "lunch" >>, << "CLOSED" >>,
    << "Temporarily", "unavailable" >>, << "Not", "available" >> }

StaticResponses ==
  { [kind |-> k, status |-> 0, banner |-> FALSE, text |-> << >>] :
       k \in { "network_error", "timeout" } }
    \cup { [kind |-> "response", status |-> c, banner |-> FALSE, text |-> << >>] :
              c \in StatusCodes }
    \cup { [kind |-> "response", status |-> c, banner |-> TRUE, text |-> t] :
              c \in StatusCodes, t \in BannerTexts }

\* resp.raise_for_status() raises HTTPError for a 4xx or a 5xx status
raise_for_status(status) == 400 <= status /\ status < 600

\* A mutant of BannerClosed: a page without a banner counts as closed.
BannerClosed_pessimistic(resp) ==
  ~resp.banner \/ Contains(Lower(resp.text), << "closed" >>)

\* banner and 'closed' in banner.get_text(strip=True).lower()
BannerClosed(resp) == resp.banner /\ Contains(Lower(resp.text), << "closed" >>)

\* the probe outcome of the grab branch for what requests.get did
GrabOutcome(resp) ==
  IF resp.kind # "response" THEN resp.kind
  ELSE IF raise_for_status(resp.status) THEN "http_error"
  ELSE IF BannerClosed(resp) THEN "banner_closed"
  ELSE "no_closed_banner"

\* p_result before the first probe
NoResult == [raised |-> None, is_online |-> FALSE, response_time |-> 0,
             error_msg |-> None, classified |-> FALSE]

\* ---- the database -------------------------------------------------------
EmptyDB == [stores |-> {}, status_checks |-> {}, summary_reports |-> {}]

\* sqlite3.OperationalError messages a statement or a commit can raise
DbErrors == { "database is locked", "disk I/O error" }

\* INTEGER PRIMARY KEY AUTOINCREMENT; rows are never deleted
NextId(table) == Cardinality(table) + 1

\* A mutant of init_database: the tables are dropped and created again.
init_database_recreate(d) == EmptyDB

\* init_database(): CREATE TABLE IF NOT EXISTS leaves existing rows alone
init_database(d) == d

\* A mutant of get_or_create_store: an existing row takes the new name.
get_or_create_store_overwrite(stores, name, url, r) ==
  LET found == { s \in stores : s.url = url }
  IN  IF found # {}
      THEN LET s == CHOOSE x \in found : TRUE
           IN  [id |-> s.id, created |-> FALSE, raised |-> None,
                stores |-> (stores \ {s}) \cup { [s EXCEPT !.name = name] }]
      ELSE [id |-> NextId(stores), created |-> TRUE, raised |-> None,
            stores |-> stores \cup { [id |-> NextId(stores), name |-> name, url |-> url,
                                      platform |-> Platform(url), run |-> r] }]

\* get_or_create_store(cursor, name, url): SELECT by url, INSERT when absent.
\* `raised` is the IntegrityError of the UNIQUE constraint on url.
get_or_create_store(stores, name, url, r) ==
  LET found == { s \in stores : s.url = url }
  IN  IF found # {}
      THEN [id |-> (CHOOSE x \in found : TRUE).id, created |-> FALSE, raised |-> None,
            stores |-> stores]
      ELSE [id |-> NextId(stores), created |-> TRUE, raised |-> None,
            stores |-> stores \cup { [id |-> NextId(stores), name |-> name, url |-> url,
                                      platform |-> Platform(url), run |-> r] }]

\* A mutant of InsertStatusCheck: the reason is not stored.
InsertStatusCheck_no_reason(checks, store_id, is_online, response_time, error_msg, r) ==
  checks \cup { [id |-> NextId(checks), store_id |-> store_id, is_online |-> is_online,
                 response_time_ms |-> response_time, error_message |-> None, run |-> r] }

\* INSERT INTO status_checks (store_id, is_online, response_time_ms, error_message)
InsertStatusCheck(checks, store_id, is_online, response_time, error_msg, r) ==
  checks \cup { [id |-> NextId(checks), store_id |-> store_id, is_online |-> is_online,
                 response_time_ms |-> response_time, error_message |-> error_msg, run |-> r] }

\* online_count / len(results) * 100 if len(results) > 0 else 0.
\* The REAL is kept in thousandths of a percent (66.666... is 66666).
online_percentage(online_count, total) ==
  IF total > 0 THEN (online_count * 100000) \div total ELSE 0

OnlineCount(res) == Cardinality({ k \in 1 .. Len(res) : res[k].is_online })

\* A mutant of SummaryRow: offline_count is taken to be the list length.
SummaryRow_offline_total(reports, res, r) ==
  [id |-> NextId(reports), total_stores |-> Len(res), online_stores |-> OnlineCount(res),
   offline_stores |-> Len(res),
   online_percentage |-> online_percentage(OnlineCount(res), Len(res)), run |-> r]

\* the summary_reports row main() inserts for its results
SummaryRow(reports, res, r) ==
  [id |-> NextId(reports), total_stores |-> Len(res), online_stores |-> OnlineCount(res),
   offline_stores |-> Len(res) - OnlineCount(res),
   online_percentage |-> online_percentage(OnlineCount(res), Len(res)), run |-> r]

\* print_summary_report(results): the exception it raises, None when it returns
print_summary_report(res) == IF Len(res) = 0 THEN "ZeroDivisionError" ELSE None

\* ---- dashboard.py: load_data() ----------------------------------------------
\* CURRENT_TIMESTAMP is UTC.  Time is counted in whole hours since 00:00 of
\* day 0; the instants at which something is written or read:
Instants == << 14, 17, 41 >>

\* DATE(t, '+n hours'): the calendar day of t shifted by n hours
DATE(t, shift) == (t + shift) \div 24

\* strftime('%H', t)
HourOf(t) == t % 24

\* SUM over a group: f maps each row of the group to its term
RECURSIVE SumOf(_)
SumOf(f) ==
  IF DOMAIN f = {} THEN 0
  ELSE LET x == CHOOSE y \in DOMAIN f : TRUE
       IN  f[x] + SumOf([y \in DOMAIN f \ {x} |-> f[y]])

\* ROUND(n * 1.0 / d, 0) for n >= 0, d > 0: halves go up
ROUND(n, d) == (2 * n + d) \div (2 * d)

\* MAX(checked_at) of a group
MaxOf(S) == CHOOSE x \in S : \A y \in S : y <= x
MinOf(S) == CHOOSE x \in S : \A y \in S : x <= y

\* the terms of AVG(online_percentage), AVG(100 - online_percentage) and
\* SUM(CASE WHEN is_online = 1 THEN 1 ELSE 0 END)
OnlinePct(rs) == [r \in rs |-> r.online_percentage]
OfflinePct(rs) == [r \in rs |-> 100 - r.online_percentage]
IsOnline(cs) == [c \in cs |-> IF c.is_online THEN 1 ELSE 0]

\* a row of latest_status: the selected columns; store_id and check_id are
\* not columns, they tell which rows were joined
LatestRow(st, sc) ==
  [name |-> st.name, url |-> st.url, platform |-> st.platform, is_online |-> sc.is_online,
   checked_at |-> sc.checked_at, store_id |-> st.id, check_id |-> sc.id]

\* A mutant of latest_status_query: the subquery takes MIN(checked_at).
latest_status_query_min(d) ==
  { LatestRow(p[1], p[2]) :
      p \in { q \in d.stores \X d.status_checks :
                /\ q[1].id = q[2].store_id
                /\ q[2].checked_at =
                     MinOf({ c.checked_at : c \in { x \in d.status_checks :
                                                        x.store_id = q[2].store_id } }) } }

\* latest_status_query: stores JOIN status_checks JOIN (store_id, MAX(checked_at))
latest_status_query(d) ==
  { LatestRow(p[1], p[2]) :
      p \in { q \in d.stores \X d.status_checks :
                /\ q[1].id = q[2].store_id
                /\ q[2].checked_at =
                     MaxOf({ c.checked_at : c \in { x \in d.status_checks :
                                                        x.store_id = q[2].store_id } }) } }

\* hourly_query: summary_reports WHERE DATE(report_time) = DATE('now', '+8 hours')
\* GROUP BY strftime('%H', report_time)
hourly_query(d, t) ==
  LET sel == { r \in d.summary_reports : DATE(r.report_time, 0) = DATE(t, 8) }
      grp(h) == { r \in sel : HourOf(r.report_time) = h }
  IN  { [hour |-> h,
         online_pct |-> ROUND(SumOf(OnlinePct(grp(h))), Cardinality(grp(h))),
         offline_pct |-> ROUND(SumOf(OfflinePct(grp(h))), Cardinality(grp(h))),
         data_points |-> Cardinality(grp(h))] :
        h \in { HourOf(r.report_time) : r \in sel } }

\* a row of daily_uptime for store st and its selected checks cs
UptimeRow(st, cs) ==
  [name |-> st.name, platform |-> st.platform, store_id |-> st.id,
   total_checks |-> Cardinality(cs),
   online_checks |-> SumOf(IsOnline(cs)),
   uptime_percentage |-> IF cs = {} THEN 0
                         ELSE ROUND(SumOf(IsOnline(cs)) * 100, Cardinality(cs))]

\* A mutant of daily_uptime_query: a LEFT JOIN, every store has a row.
daily_uptime_query_left_join(d, t) ==
  LET sel(st) == { c \in d.status_checks :
                     c.store_id = st.id /\ DATE(c.checked_at, 8) = DATE(t, 8) }
  IN  { UptimeRow(st, sel(st)) : st \in d.stores }

\* daily_uptime_query: stores JOIN status_checks
\* WHERE DATE(checked_at, '+8 hours') = DATE('now', '+8 hours') GROUP BY s.id
daily_uptime_query(d, t) ==
  LET sel(st) == { c \in d.status_checks :
                     c.store_id = st.id /\ DATE(c.checked_at, 8) = DATE(t, 8) }
  IN  { UptimeRow(st, sel(st)) : st \in { x \in d.stores : sel(x) # {} } }

\* online_percentage values of summary_reports rows, in whole percent
Percentages == { 25, 100 }

\* ---- two invocations of main() on one database file ----------------------------
Procs == { 1, 2 }

\* a connection without an open transaction
NoTx == [stores |-> {}, status_checks |-> {}]

\* SELECT id FROM stores WHERE url = ?
SelectStore(stores, url) == { st \in stores : st.url = url }

\* A mutant of InsertStore: the url column is not UNIQUE.
InsertStore_no_unique(stores, name, url, r) ==
  [raised |-> None,
   stores |-> stores \cup { [id |-> NextId(stores), name |-> name, url |-> url,
                             platform |-> Platform(url), run |-> r] }]

\* INSERT INTO stores (name, url, platform): url TEXT NOT NULL UNIQUE
InsertStore(stores, name, url, r) ==
  IF \E st \in stores : st.url = url
  THEN [raised |-> "IntegrityError", stores |-> stores]
  ELSE [raised |-> None,
        stores |-> stores \cup { [id |-> NextId(stores), name |-> name, url |-> url,
                                  platform |-> Platform(url), run |-> r] }]

\* entry of `first` for a url no call was made for
NoCall == [run |-> 0, id |-> 0, name |-> None, platform |-> None]

\* ---- state --------------------------------------------------------------
VARIABLES
  db,             \* the durable content of store_status.db
  conn,           \* main's connection: state and the content it sees
  pc,             \* main's position
  run,            \* number of invocations of main() so far
  rows,           \* the most rows the runs started so far insert (bounded by MaxRows)
  STORE_URLS,     \* the url list of the current run
  results,        \* main's list `results`
  results_bound,  \* whether the name `results` is bound
  probes,         \* for each entry of results: the probe outcome and whether it was classified
  resolved,       \* the get_or_create_store calls of the current run: what was passed and returned
  first,          \* for each url, what the first get_or_create_store call for it returned
  exc,            \* str(e) of the exception main's handler caught, None when none
  failed_at,      \* the statement that raised it
  write_attempts, \* how many times main issued the statement that raised
  main_slept,     \* seconds main slept between attempts of a write
  outcome,        \* how the last invocation of main() ended
  ssc_pc,         \* save_status_check: position
  ssc_args,       \* save_status_check: arguments of the current call
  attempt,        \* save_status_check: loop variable
  slept,          \* save_status_check: seconds slept by the current call
  ssc_conn,       \* save_status_check: the local `conn`
  ssc_leaked,     \* save_status_check: connections dropped without close()
  ssc_rows0,      \* save_status_check: number of status_checks rows when the call began
  ssc_path,       \* save_status_check: how the last call left the loop
  ssc_result,     \* save_status_check: what the caller of the last call got
  ssc_exc,        \* save_status_check: str(e) of the last OperationalError of the call
  calls,          \* number of save_status_check calls so far
  p_pc,           \* check_store_online: position
  p_url,          \* check_store_online: the url probed
  p_page,         \* what the url serves: a rendered page or a response
  p_i,            \* foodpanda branch: index of the loop over closed_indicators
  p_exc,          \* foodpanda branch: where the try block raised, None when it did not
  browser,        \* foodpanda branch: the local `browser`
  leaked,         \* browser sessions that were open when a later probe started
  p_result,       \* what check_store_online returned
  probed,         \* number of check_store_online calls so far
  d_file,         \* dashboard: whether store_status.db exists
  d_db,           \* dashboard: the tables with their timestamp columns
  now,            \* dashboard: the clock, in hours of UTC since day 0, 00:00
  latest_status,  \* load_data: first frame, for the current content and time
  hourly_data,    \* load_data: second frame
  daily_uptime,   \* load_data: fourth frame
  d_loaded,       \* load_data: "no" before a call, then what the call returned
  r_pc,           \* overlapping runs: position of each invocation of main()
  r_urls,         \* overlapping runs: STORE_URLS of each invocation
  r_k,            \* overlapping runs: index of the url each invocation is at
  r_missed,       \* overlapping runs: urls for which the SELECT of an invocation found no row
  r_exc,          \* overlapping runs: the exception that ended an invocation
  r_tx,           \* overlapping runs: rows of each connection's open transaction
  r_lock          \* overlapping runs: the connection that holds the write lock, 0 when free

mainVars == << conn, pc, run, rows, STORE_URLS, results, results_bound, probes, resolved,
               first, exc, failed_at, write_attempts, main_slept, outcome >>
sscVars == << ssc_pc, ssc_args, attempt, slept, ssc_conn, ssc_leaked, ssc_rows0,
              ssc_path, ssc_result, ssc_exc, calls >>
probeVars == << p_pc, p_url, p_page, p_i, p_exc, browser, leaked, p_result, probed >>
dashVars == << d_file, d_db, now, latest_status, hourly_data, daily_uptime, d_loaded >>
raceVars == << r_pc, r_urls, r_k, r_missed, r_exc, r_tx, r_lock >>
others == << probeVars, dashVars, raceVars >>
vars == << db, mainVars, sscVars, others >>

Init ==
  /\ db = EmptyDB
  /\ conn = [state |-> None, view |-> EmptyDB]
  /\ pc = "idle"
  /\ run = 0
  /\ rows = 0
  /\ STORE_URLS = <<>>
  /\ results = <<>>
  /\ results_bound = FALSE
  /\ probes = <<>>
  /\ resolved = {}
  /\ first = [u \in Urls |-> NoCall]
  /\ exc = None
  /\ failed_at = None
  /\ write_attempts = 0
  /\ main_slept = 0
  /\ outcome = None
  /\ ssc_pc = "idle"
  /\ ssc_args = None
  /\ attempt = 0
  /\ slept = 0
  /\ ssc_conn = "unbound"
  /\ ssc_leaked = 0
  /\ ssc_rows0 = 0
  /\ ssc_path = None
  /\ ssc_result = None
  /\ ssc_exc = None
  /\ calls = 0
  /\ p_pc = "idle"
  /\ p_url = None
  /\ p_page = None
  /\ p_i = 0
  /\ p_exc = None
  /\ browser = NoBrowser
  /\ leaked = 0
  /\ p_result = NoResult
  /\ probed = 0
  /\ d_file = FALSE
  /\ d_db = EmptyDB
  /\ now = Instants[1]
  /\ latest_status = None
  /\ hourly_data = None
  /\ daily_uptime = None
  /\ d_loaded = "no"
  /\ r_pc = [p \in Procs |-> "idle"]
  /\ r_urls = [p \in Procs |-> << >>]
  /\ r_k = [p \in Procs |-> 0]
  /\ r_missed = [p \in Procs |-> {}]
  /\ r_exc = [p \in Procs |-> None]
  /\ r_tx = [p \in Procs |-> NoTx]
  /\ r_lock = 0

\* ---- main() -------------------------------------------------------------
\* database faults: the statement that raises sqlite3.OperationalError, and its message
NoFault == [at |-> None, e |-> None]
Faults(statements) == { NoFault } \cup { [at |-> a, e |-> m] : a \in statements, m \in DbErrors }

\* lines 286-291 after the try: how main() ends, given the list it prints
AfterTry(res, bound) ==
  IF ~bound THEN "UnboundLocalError"
  ELSE IF print_summary_report(res) # None THEN print_summary_report(res)
  ELSE "returned"

\* main() is left with outcome o: its locals and its connection are gone
Left(o) ==
  /\ pc' = "idle"
  /\ outcome' = o
  /\ conn' = [state |-> None, view |-> EmptyDB]
  /\ results' = <<>>
  /\ results_bound' = FALSE
  /\ probes' = <<>>
  /\ resolved' = {}

\* lines 278-291: a statement inside the try raised e.  The handler prints it
\* and rolls back, finally closes the connection, and main() goes on to
\* print_summary_report(results) and the closing messages.
Raised(e, at) ==
  /\ exc' = e
  /\ failed_at' = at
  /\ write_attempts' = 1
  /\ main_slept' = 0
  /\ Left(AfterTry(results, results_bound))

\* the most rows a run over urls inserts: a stores row and a status_checks row
\* for each url, and the summary_reports row
RunRows(urls) == 2 * Len(urls) + 1

\* main(), lines 217-230: init_database(), connect, results = []
MainStart(urls, f) ==
  /\ pc = "idle"
  /\ run < MaxRuns
  /\ rows + RunRows(urls) <= MaxRows
  /\ run' = run + 1
  /\ rows' = rows + RunRows(urls)
  /\ STORE_URLS' = urls
  /\ UNCHANGED << first, sscVars, others >>
  /\ IF f.at = "init_database"
     THEN \* raised outside the try: main() ends with the exception
          /\ exc' = f.e
          /\ failed_at' = f.at
          /\ write_attempts' = 1
          /\ main_slept' = 0
          /\ Left("OperationalError")
          /\ UNCHANGED db
     ELSE /\ db' = init_database(db)
          /\ IF f.at = "connect"
             THEN Raised(f.e, f.at)
             ELSE /\ pc' = "loop"
                  /\ outcome' = None
                  /\ exc' = None
                  /\ failed_at' = None
                  /\ write_attempts' = 0
                  /\ main_slept' = 0
                  /\ conn' = [state |-> "open", view |-> init_database(db)]
                  /\ results' = <<>>
                  /\ results_bound' = TRUE
                  /\ probes' = <<>>
                  /\ resolved' = {}

\* main(), lines 231-261: one iteration of the loop over STORE_URLS
ProcessUrl(scrape, probe, f) ==
  /\ pc = "loop"
  /\ Len(results) < Len(STORE_URLS)
  /\ LET url  == STORE_URLS[Len(results) + 1]
         name == ScrapeName(url, scrape)
         chk  == check_store_online(url, probe, ElapsedMs(probe))
         g    == get_or_create_store(conn.view.stores, name, url, run)
         row  == CHOOSE s \in g.stores : s.id = g.id
         call == [url |-> url, candidate |-> name, id |-> g.id, name |-> row.name,
                  platform |-> row.platform]
         seen == IF first[url] = NoCall
                 THEN [first EXCEPT ![url] = [run |-> run, id |-> g.id, name |-> row.name,
                                              platform |-> row.platform]]
                 ELSE first
     IN  /\ probe \in ProbeOutcomes(url)
         /\ f.at = "insert_store" => g.created
         /\ IF chk.raised # None
            THEN /\ Raised(chk.raised, "check_store_online")
                 /\ UNCHANGED first
            ELSE IF f.at = "select" \/ f.at = "insert_store"
            THEN /\ Raised(f.e, f.at)
                 /\ UNCHANGED first
            ELSE IF g.raised # None
            THEN /\ Raised(g.raised, "insert_store")
                 /\ UNCHANGED first
            ELSE IF f.at = "insert_check"
            THEN /\ Raised(f.e, f.at)
                 /\ first' = seen
            ELSE /\ conn' = [conn EXCEPT !.view.stores = g.stores,
                                         !.view.status_checks =
                                            InsertStatusCheck(@, g.id, chk.is_online,
                                                              chk.response_time, chk.error_msg, run)]
                 /\ resolved' = resolved \cup {call}
                 /\ first' = seen
                 /\ results' = Append(results, [name |-> name, url |-> url,
                                                is_online |-> chk.is_online,
                                                response_time |-> chk.response_time,
                                                error_msg |-> chk.error_msg])
                 /\ probes' = Append(probes, [outcome |-> probe, classified |-> chk.classified])
                 /\ UNCHANGED << pc, results_bound, exc, failed_at, write_attempts,
                                 main_slept, outcome >>
  /\ UNCHANGED << db, run, rows, STORE_URLS, sscVars, others >>

\* main(), line 264: conn.commit() after the loop
CommitChecks(f) ==
  /\ pc = "loop"
  /\ Len(results) = Len(STORE_URLS)
  /\ IF f.at = "commit_checks"
     THEN /\ Raised(f.e, f.at)
          /\ UNCHANGED db
     ELSE /\ db' = conn.view
          /\ pc' = "summary"
          /\ UNCHANGED << conn, results, results_bound, probes, resolved, exc, failed_at,
                          write_attempts, main_slept, outcome >>
  /\ UNCHANGED << run, rows, STORE_URLS, first, sscVars, others >>

\* main(), lines 267-291: the summary_reports row, conn.commit(), finally:
\* conn.close(), print_summary_report(results) and the closing messages
SaveSummary(f) ==
  /\ pc = "summary"
  /\ IF f.at = "insert_summary" \/ f.at = "commit_summary"
     THEN /\ Raised(f.e, f.at)
          /\ UNCHANGED db
     ELSE /\ db' = [conn.view EXCEPT !.summary_reports =
                                        @ \cup { SummaryRow(@, results, run) }]
          /\ Left(AfterTry(results, results_bound))
          /\ UNCHANGED << exc, failed_at, write_attempts, main_slept >>
  /\ UNCHANGED << run, rows, STORE_URLS, first, sscVars, others >>

Next ==
  \/ \E urls \in SeqsUpTo(Urls, MaxRows \div 2), f \in Faults({ "init_database", "connect" }) :
        MainStart(urls, f)
  \/ \E scrape \in Scrapes, probe \in FoodpandaOutcomes \cup GrabOutcomes,
        f \in Faults({ "select", "insert_store", "insert_check" }) :
        ProcessUrl(scrape, probe, f)
  \/ \E f \in Faults({ "commit_checks" }) : CommitChecks(f)
  \/ \E f \in Faults({ "insert_summary", "commit_summary" }) : SaveSummary(f)

Spec == Init /\ [][Next]_vars

\* ---- save_status_check() ---------------------------------------------
\* arguments the function is called with
SscArgs ==
  { [store_id |-> 1, is_online |-> TRUE,  response_time_ms |-> 0, error_message |-> None],
    [store_id |-> 1, is_online |-> FALSE, response_time_ms |-> 0, error_message |-> "HTTP error"],
    [store_id |-> 2, is_online |-> TRUE,  response_time_ms |-> 0, error_message |-> None] }

\* where an attempt can raise sqlite3.OperationalError, and with which message
SscFaults ==
  { [at |-> "connect", e |-> "unable to open database file"] }
    \cup { [at |-> a, e |-> m] : a \in { "execute", "commit" }, m \in DbErrors }

\* A mutant of Retryable: every OperationalError is retried.
Retryable_any(e, k) == k < max_retries - 1

\* "database is locked" in str(e) and attempt < max_retries - 1
Retryable(e, k) == e = "database is locked" /\ k < max_retries - 1

\* A mutant of Backoff: a fixed delay of one second.
Backoff_fixed(k) == 1

\* time.sleep(attempt + 1)
Backoff(k) == k + 1

\* lines 76-79: the call
SscCall(args) ==
  /\ ssc_pc = "idle"
  /\ calls < MaxCalls
  /\ calls' = calls + 1
  /\ ssc_pc' = "loop"
  /\ ssc_args' = args
  /\ attempt' = 0
  /\ slept' = 0
  /\ ssc_conn' = "unbound"
  /\ ssc_leaked' = 0
  /\ ssc_rows0' = Cardinality(db.status_checks)
  /\ ssc_path' = None
  /\ ssc_result' = None
  /\ ssc_exc' = None
  /\ UNCHANGED << db, mainVars, others >>

\* lines 81-93: an attempt that connects, inserts, commits, closes and returns
SscAttemptOk ==
  /\ ssc_pc = "loop"
  /\ attempt < max_retries
  /\ db' = [db EXCEPT !.status_checks =
                         InsertStatusCheck(@, ssc_args.store_id, ssc_args.is_online,
                                           ssc_args.response_time_ms, ssc_args.error_message, 0)]
  /\ ssc_leaked' = ssc_leaked + (IF ssc_conn = "open" THEN 1 ELSE 0)
  /\ ssc_conn' = "closed"
  /\ ssc_pc' = "idle"
  /\ ssc_path' = "written"
  /\ ssc_result' = "returned None"
  /\ UNCHANGED << ssc_args, ssc_rows0, attempt, slept, ssc_exc, calls, mainVars, others >>

\* lines 81-104: an attempt in which connect, execute or commit raises OperationalError
SscAttemptFails(f) ==
  /\ ssc_pc = "loop"
  /\ attempt < max_retries
  /\ LET \* conn = sqlite3.connect(...) rebinds the local; the connection it held is dropped
         connected == f.at # "connect"
         bound     == IF connected THEN "open" ELSE ssc_conn
         dropped   == IF connected /\ ssc_conn = "open" THEN 1 ELSE 0
     IN  /\ ssc_leaked' = ssc_leaked + dropped
         /\ ssc_exc' = f.e
         /\ IF Retryable(f.e, attempt)
            THEN /\ slept' = slept + Backoff(attempt)
                 /\ attempt' = attempt + 1
                 /\ ssc_conn' = bound
                 /\ UNCHANGED << ssc_pc, ssc_path, ssc_result >>
            ELSE /\ ssc_conn' = IF bound = "unbound" THEN "unbound" ELSE "closed"
                 /\ ssc_pc' = "idle"
                 /\ ssc_path' = IF f.e = "database is locked" THEN "exhausted" ELSE "error"
                 /\ ssc_result' = "returned None"
                 /\ UNCHANGED << attempt, slept >>
  /\ UNCHANGED << db, ssc_args, ssc_rows0, calls, mainVars, others >>

NextSave ==
  \/ \E args \in SscArgs : SscCall(args)
  \/ SscAttemptOk
  \/ \E f \in SscFaults : SscAttemptFails(f)

SpecSave == Init /\ [][NextSave]_vars

\* ---- check_store_online(), statement by statement ---------------------------
\* lines 125-131: the call with a foodpanda url; the locals are fresh, and a
\* browser an earlier call left open stays open
RenderedStart(url, dom) ==
  /\ p_pc = "idle"
  /\ probed < MaxProbes
  /\ Platform(url) = "foodpanda"
  /\ probed' = probed + 1
  /\ p_url' = url
  /\ p_page' = dom
  /\ p_i' = 0
  /\ p_exc' = None
  /\ leaked' = leaked + Open(browser)
  /\ browser' = NoBrowser
  /\ p_result' = NoResult
  /\ p_pc' = "launch"
  /\ UNCHANGED << db, mainVars, sscVars, dashVars, raceVars >>

\* lines 157-160: a statement of the try block raised e; the with block is
\* left, and the handler returns (False, response_time, str(e))
RenderedRaise(e) ==
  /\ p_exc' = e
  /\ browser' = playwright_exit(browser)
  /\ p_result' = check_store_online(p_url, PlaywrightFailure(e), ElapsedMs(PlaywrightFailure(e)))
  /\ p_pc' = "idle"
  /\ UNCHANGED << p_url, p_page, p_i, leaked, probed >>

\* lines 149-151 and 153-155: browser.close(), return; the with block is left
RenderedReturn(found) ==
  LET o == IF found THEN "closed_indicator" ELSE "no_indicator"
  IN  /\ browser' = playwright_exit(browser_close(browser))
      /\ p_result' = check_store_online(p_url, o, ElapsedMs(o))
      /\ p_pc' = "idle"
      /\ UNCHANGED << p_url, p_page, p_i, p_exc, leaked, probed >>

\* line 132: browser = p.chromium.launch(headless=True)
Launch(e) ==
  /\ p_pc = "launch"
  /\ IF e # None
     THEN RenderedRaise(e)
     ELSE /\ browser' = [state |-> "open", closes |-> 0]
          /\ p_pc' = "load"
          /\ UNCHANGED << p_url, p_page, p_i, p_exc, leaked, p_result, probed >>
  /\ UNCHANGED << db, mainVars, sscVars, dashVars, raceVars >>

\* lines 133-135: new_page(), goto(url, timeout=60000), wait_for_timeout(3000)
Load(e) ==
  /\ p_pc = "load"
  /\ IF e # None
     THEN RenderedRaise(e)
     ELSE /\ p_pc' = "inspect"
          /\ p_i' = 1
          /\ UNCHANGED << p_url, p_page, p_exc, browser, leaked, p_result, probed >>
  /\ UNCHANGED << db, mainVars, sscVars, dashVars, raceVars >>

\* lines 147-155: one iteration of the loop over closed_indicators, and the
\* statements after the loop when it was the last one
Inspect(e) ==
  /\ p_pc = "inspect"
  /\ IF e # None
     THEN RenderedRaise(e)
     ELSE IF query_selector(p_page, closed_indicators[p_i])
     THEN RenderedReturn(TRUE)
     ELSE IF p_i = Len(closed_indicators)
     THEN RenderedReturn(FALSE)
     ELSE /\ p_i' = p_i + 1
          /\ UNCHANGED << p_pc, p_url, p_page, p_exc, browser, leaked, p_result, probed >>
  /\ UNCHANGED << db, mainVars, sscVars, dashVars, raceVars >>

\* lines 161-183: the call with any other url
StaticProbe(url, resp) ==
  /\ p_pc = "idle"
  /\ probed < MaxProbes
  /\ Platform(url) # "foodpanda"
  /\ probed' = probed + 1
  /\ p_url' = url
  /\ p_page' = resp
  /\ p_i' = 0
  /\ p_exc' = None
  /\ leaked' = leaked + Open(browser)
  /\ browser' = NoBrowser
  /\ p_result' = check_store_online(url, GrabOutcome(resp), ElapsedMs(GrabOutcome(resp)))
  /\ UNCHANGED << p_pc, db, mainVars, sscVars, dashVars, raceVars >>

NextProbe ==
  \/ \E url \in Urls, dom \in RenderedPages : RenderedStart(url, dom)
  \/ \E e \in { None, "launch" } : Launch(e)
  \/ \E e \in { None, "new_page", "goto", "wait_for_timeout" } : Load(e)
  \/ \E e \in { None, "query_selector" } : Inspect(e)
  \/ \E url \in Urls, resp \in StaticResponses : StaticProbe(url, resp)

SpecProbe == Init /\ [][NextProbe]_vars

\* ---- the database as the dashboard reads it -----------------------------------
\* rows of status_checks and summary_reports in d_db
DashRows == Cardinality(d_db.status_checks) + Cardinality(d_db.summary_reports)

\* the frames of an earlier load_data call are not those of the new content
Unloaded ==
  /\ latest_status' = None
  /\ hourly_data' = None
  /\ daily_uptime' = None
  /\ d_loaded' = "no"

\* init_database(): the file and its tables are created
DashInitDatabase ==
  /\ ~d_file
  /\ d_file' = TRUE
  /\ Unloaded
  /\ UNCHANGED << d_db, now, db, mainVars, sscVars, probeVars, raceVars >>

\* INSERT INTO stores (name, url, platform)
DashInsertStore(url) ==
  /\ d_file
  /\ \A st \in d_db.stores : st.url # url
  /\ d_db' = [d_db EXCEPT !.stores =
                 @ \cup { [id |-> NextId(@), name |-> H1Text(url), url |-> url,
                           platform |-> Platform(url)] }]
  /\ Unloaded
  /\ UNCHANGED << d_file, now, db, mainVars, sscVars, probeVars, raceVars >>

\* INSERT INTO status_checks: checked_at DEFAULT CURRENT_TIMESTAMP
DashInsertCheck(store_id, is_online) ==
  /\ d_file
  /\ DashRows < MaxDashRows
  /\ \E st \in d_db.stores : st.id = store_id
  /\ d_db' = [d_db EXCEPT !.status_checks =
                 @ \cup { [id |-> NextId(@), store_id |-> store_id, is_online |-> is_online,
                           checked_at |-> now] }]
  /\ Unloaded
  /\ UNCHANGED << d_file, now, db, mainVars, sscVars, probeVars, raceVars >>

\* INSERT INTO summary_reports: report_time DEFAULT CURRENT_TIMESTAMP
DashInsertReport(pct) ==
  /\ d_file
  /\ DashRows < MaxDashRows
  /\ d_db' = [d_db EXCEPT !.summary_reports =
                 @ \cup { [id |-> NextId(@), online_percentage |-> pct, report_time |-> now] }]
  /\ Unloaded
  /\ UNCHANGED << d_file, now, db, mainVars, sscVars, probeVars, raceVars >>

\* time passes
Tick ==
  /\ \E k \in 1 .. Len(Instants) - 1 : now = Instants[k] /\ now' = Instants[k + 1]
  /\ Unloaded
  /\ UNCHANGED << d_file, d_db, db, mainVars, sscVars, probeVars, raceVars >>

\* load_data(), lines 192-273
load_data ==
  /\ d_loaded = "no"
  /\ IF ~d_file
     THEN /\ d_loaded' = "None"
          /\ UNCHANGED << latest_status, hourly_data, daily_uptime >>
     ELSE /\ d_loaded' = "frames"
          /\ latest_status' = latest_status_query(d_db)
          /\ hourly_data' = hourly_query(d_db, now)
          /\ daily_uptime' = daily_uptime_query(d_db, now)
  /\ UNCHANGED << d_file, d_db, now, db, mainVars, sscVars, probeVars, raceVars >>

NextDash ==
  \/ DashInitDatabase
  \/ \E url \in Urls : DashInsertStore(url)
  \/ \E store_id \in 1 .. Cardinality(Urls), is_online \in BOOLEAN :
        DashInsertCheck(store_id, is_online)
  \/ \E pct \in Percentages : DashInsertReport(pct)
  \/ Tick
  \/ load_data

SpecDash == Init /\ [][NextDash]_vars

\* ---- overlapping runs ------------------------------------------------------
\* what connection p reads: the durable rows and the rows of its transaction
RaceView(p) ==
  [stores |-> db.stores \cup r_tx[p].stores,
   status_checks |-> db.status_checks \cup r_tx[p].status_checks]

RaceUrl(p) == r_urls[p][r_k[p]]

\* another connection holds the write lock
Busy(p) == r_lock # 0 /\ r_lock # p

\* lines 278-285: a statement raised e; the transaction is rolled back and
\* the connection is closed
RaceRaised(p, e) ==
  /\ r_exc' = [r_exc EXCEPT ![p] = e]
  /\ r_pc' = [r_pc EXCEPT ![p] = "done"]
  /\ r_tx' = [r_tx EXCEPT ![p] = NoTx]
  /\ r_lock' = IF r_lock = p THEN 0 ELSE r_lock
  /\ UNCHANGED << db, r_urls, r_k, r_missed >>

\* lines 217-230: an invocation of main() begins
RaceStart(p, urls) ==
  /\ r_pc[p] = "idle"
  /\ Len(urls) > 0
  /\ r_pc' = [r_pc EXCEPT ![p] = "select"]
  /\ r_urls' = [r_urls EXCEPT ![p] = urls]
  /\ r_k' = [r_k EXCEPT ![p] = 1]
  /\ UNCHANGED << db, r_missed, r_exc, r_tx, r_lock, mainVars, sscVars, probeVars, dashVars >>

\* lines 63-67: the SELECT of get_or_create_store and the test of its result
RaceSelect(p) ==
  /\ r_pc[p] = "select"
  /\ IF SelectStore(RaceView(p).stores, RaceUrl(p)) # {}
     THEN /\ r_pc' = [r_pc EXCEPT ![p] = "insert_check"]
          /\ UNCHANGED r_missed
     ELSE /\ r_pc' = [r_pc EXCEPT ![p] = "insert_store"]
          /\ r_missed' = [r_missed EXCEPT ![p] = @ \cup { RaceUrl(p) }]
  /\ UNCHANGED << db, r_urls, r_k, r_exc, r_tx, r_lock, mainVars, sscVars, probeVars, dashVars >>

\* lines 70-74: the INSERT of get_or_create_store.  The statement waits for
\* the write lock; timed_out: it gave up after the 30 s of the connection.
RaceInsertStore(p, timed_out) ==
  /\ r_pc[p] = "insert_store"
  /\ timed_out = Busy(p)
  /\ LET ins == InsertStore(RaceView(p).stores, SlugTitle(RaceUrl(p)), RaceUrl(p), p)
     IN  IF timed_out
         THEN RaceRaised(p, "database is locked")
         ELSE IF ins.raised # None
         THEN RaceRaised(p, ins.raised)
         ELSE /\ r_lock' = p
              /\ r_tx' = [r_tx EXCEPT ![p].stores = ins.stores \ db.stores]
              /\ r_pc' = [r_pc EXCEPT ![p] = "insert_check"]
              /\ UNCHANGED << db, r_urls, r_k, r_missed, r_exc >>
  /\ UNCHANGED << mainVars, sscVars, probeVars, dashVars >>

\* lines 255-261: the INSERT into status_checks, and the next url
RaceInsertCheck(p, timed_out) ==
  /\ r_pc[p] = "insert_check"
  /\ timed_out = Busy(p)
  /\ LET st == CHOOSE x \in SelectStore(RaceView(p).stores, RaceUrl(p)) : TRUE
         checks == InsertStatusCheck(RaceView(p).status_checks, st.id, TRUE, 0, None, p)
     IN  IF timed_out
         THEN RaceRaised(p, "database is locked")
         ELSE /\ r_lock' = p
              /\ r_tx' = [r_tx EXCEPT ![p].status_checks = checks \ db.status_checks]
              /\ IF r_k[p] < Len(r_urls[p])
                 THEN /\ r_k' = [r_k EXCEPT ![p] = @ + 1]
                      /\ r_pc' = [r_pc EXCEPT ![p] = "select"]
                 ELSE /\ r_pc' = [r_pc EXCEPT ![p] = "commit"]
                      /\ UNCHANGED r_k
              /\ UNCHANGED << db, r_urls, r_missed, r_exc >>
  /\ UNCHANGED << mainVars, sscVars, probeVars, dashVars >>

\* line 264: conn.commit() after the loop
RaceCommit(p) ==
  /\ r_pc[p] = "commit"
  /\ db' = [db EXCEPT !.stores = @ \cup r_tx[p].stores,
                      !.status_checks = @ \cup r_tx[p].status_checks]
  /\ r_tx' = [r_tx EXCEPT ![p] = NoTx]
  /\ r_lock' = 0
  /\ r_pc' = [r_pc EXCEPT ![p] = "summary"]
  /\ UNCHANGED << r_urls, r_k, r_missed, r_exc, mainVars, sscVars, probeVars, dashVars >>

\* lines 267-285: the summary_reports row, conn.commit(), conn.close()
RaceSummary(p, timed_out) ==
  /\ r_pc[p] = "summary"
  /\ timed_out = Busy(p)
  /\ IF timed_out
     THEN RaceRaised(p, "database is locked")
     ELSE /\ db' = [db EXCEPT !.summary_reports =
                       @ \cup { [id |-> NextId(@), total_stores |-> Len(r_urls[p]),
                                 online_stores |-> Len(r_urls[p]), offline_stores |-> 0,
                                 online_percentage |-> online_percentage(Len(r_urls[p]),
                                                                         Len(r_urls[p])),
                                 run |-> p] }]
          /\ r_pc' = [r_pc EXCEPT ![p] = "done"]
          /\ UNCHANGED << r_urls, r_k, r_missed, r_exc, r_tx, r_lock >>
  /\ UNCHANGED << mainVars, sscVars, probeVars, dashVars >>

NextRace ==
  \/ \E p \in Procs, urls \in SeqsUpTo(Urls, MaxRaceUrls) : RaceStart(p, urls)
  \/ \E p \in Procs : RaceSelect(p)
  \/ \E p \in Procs, timed_out \in BOOLEAN : RaceInsertStore(p, timed_out)
  \/ \E p \in Procs, timed_out \in BOOLEAN : RaceInsertCheck(p, timed_out)
  \/ \E p \in Procs : RaceCommit(p)
  \/ \E p \in Procs, timed_out \in BOOLEAN : RaceSummary(p, timed_out)

SpecRace == Init /\ [][NextRace]_vars

\* ---- properties ----------------------------------------------------------
WriteStatements ==
  { "insert_store", "insert_check", "commit_checks", "insert_summary", "commit_summary" }

DbStatements == WriteStatements \cup { "init_database", "connect", "select" }

RunChecks(d, r) == { c \in d.status_checks : c.run = r }
RunReports(d, r) == { s \in d.summary_reports : s.run = r }

\* C1: run atomicity.  In every durable state a reader can observe, a run has
\* either none of its status_checks and summary_reports rows visible, or all
\* of its status_checks rows together with its summary_reports row.
C1_RunAtomicity ==
  \A r \in 1 .. run :
     \/ RunChecks(db, r) = {} /\ RunReports(db, r) = {}
     \/ \E s \in RunReports(db, r) : s.total_stores = Cardinality(RunChecks(db, r))

\* C2: a run in which a persistence write failed does not end like a committed
\* run (digest printed, data announced as saved, normal return).
C2_FailedRunReported ==
  (pc = "idle" /\ exc # None /\ failed_at \in WriteStatements) => outcome # "returned"

\* C3: rows that are durable stay durable with the same field values through
\* every step of a run, in particular of a run that fails at a persistence step.
C3_PriorRunsPreserved ==
  [][ /\ db.stores \subseteq db'.stores
      /\ db.status_checks \subseteq db'.status_checks
      /\ db.summary_reports \subseteq db'.summary_reports ]_vars

\* a run failed at a write while the rows of an earlier, committed run are durable
C3_Witness ==
  /\ pc = "idle"
  /\ run = 2
  /\ failed_at \in WriteStatements
  /\ \E s \in db.stores : s.run = 1
  /\ RunChecks(db, 1) # {}
  /\ RunReports(db, 1) # {}

\* the reason a failed fetch is recorded with
FailureReason(probe) == IF probe = "http_error" THEN "HTTP error" ELSE ExcText(probe)

\* C4: a probe failure never leaves check_store_online as an exception and
\* never reaches classification; it is recorded offline with its reason, its
\* status_checks row is inserted, and the loop is left for the commit only
\* after every url was probed; only database statements abort a run.
C4_ProbeFailureAbsorbed ==
  /\ failed_at # "check_store_online"
  /\ exc # None => failed_at \in DbStatements
  /\ pc = "summary" => Len(results) = Len(STORE_URLS)
  /\ \A k \in 1 .. Len(results) :
        probes[k].outcome \in ProbeFailures =>
          /\ ~results[k].is_online
          /\ results[k].error_msg = FailureReason(probes[k].outcome)
          /\ ~probes[k].classified
          /\ conn.state = "open" =>
               \E c \in RunChecks(conn.view, run), s \in conn.view.stores :
                  /\ s.url = results[k].url
                  /\ c.store_id = s.id
                  /\ ~c.is_online
                  /\ c.error_message = results[k].error_msg

\* a failed probe was followed by another probe and the loop reached its commit
C4_Witness ==
  /\ pc = "summary"
  /\ Len(results) = 2
  /\ probes[1].outcome \in ProbeFailures
  /\ ~results[1].is_online
  /\ Cardinality(RunChecks(db, run)) = 2

UniqueUrl(stores) == \A s, t \in stores : s.url = t.url => s = t

SameStore(x, y) == x.id = y.id /\ x.name = y.name /\ x.platform = y.platform

\* C5 as stated: one stores row per url, and every call for a url returns the
\* id, name and platform that the first call for that url returned.
C5_FirstWriteWins ==
  /\ UniqueUrl(db.stores)
  /\ UniqueUrl(conn.view.stores)
  /\ \A x \in resolved : SameStore(x, first[x.url])

\* C5 amended: at most one stores row per url; calls for a url within one run
\* agree; a call for a url that has a durable stores row returns that row's
\* id and leaves its name and platform alone; the row a call returned is in
\* the connection's view; a durable row created by the first call for its url
\* is as that call returned it.
C5_FirstCommittedWriteWins ==
  /\ UniqueUrl(db.stores)
  /\ UniqueUrl(conn.view.stores)
  /\ \A x, y \in resolved : x.url = y.url => SameStore(x, y)
  /\ \A x \in resolved : \A s \in db.stores : s.url = x.url => SameStore(x, s)
  /\ conn.state = "open" =>
       \A x \in resolved : \E s \in conn.view.stores : s.url = x.url /\ SameStore(x, s)
  /\ \A s \in db.stores : first[s.url].run = s.run => SameStore(first[s.url], s)

\* a later run resolved a committed store with another name candidate
C5_Witness ==
  \E x \in resolved : \E s \in db.stores :
     /\ s.run < run
     /\ s.url = x.url
     /\ x.candidate # s.name
     /\ x.id = s.id

\* C6: at most one status_checks row per store per run, and every
\* status_checks row references an existing stores row.
C6_OneCheckPerStorePerRun ==
  /\ \A r \in 1 .. run : \A s \in db.stores :
        Cardinality({ c \in RunChecks(db, r) : c.store_id = s.id }) <= 1
  /\ \A c \in db.status_checks : \E s \in db.stores : s.id = c.store_id

SummaryOk(d, s) ==
  /\ s.total_stores = s.online_stores + s.offline_stores
  /\ s.total_stores = Cardinality(RunChecks(d, s.run))
  /\ s.online_stores = Cardinality({ c \in RunChecks(d, s.run) : c.is_online })
  /\ IF s.total_stores = 0
     THEN s.online_percentage = 0
     ELSE /\ s.online_percentage * s.total_stores <= 100000 * s.online_stores
          /\ 100000 * s.online_stores < (s.online_percentage + 1) * s.total_stores
  /\ (s.total_stores = 3 /\ s.online_stores = 2) =>
        /\ s.offline_stores = 1
        /\ 66000 <= s.online_percentage /\ s.online_percentage <= 67000

\* C7: every summary_reports row has total = online + offline, online is the
\* number of the run's probes classified online, and online_percentage is
\* 100*online/total (held in thousandths of a percent), 0 for an empty run;
\* three stores with two online give 3, 2, 1 and a percentage between 66 and 67.
C7_SummaryInvariant == \A s \in db.summary_reports : SummaryOk(db, s)

\* Scenario E: the summary of a run of three stores, two of them online
C7_Witness ==
  \E s \in db.summary_reports :
     /\ s.total_stores = 3 /\ s.online_stores = 2 /\ s.offline_stores = 1
     /\ s.online_percentage = 66666

\* C8: a write of main() that is rejected as busy fails the run only
\* after max_retries attempts with 1+2+3+4 seconds of backoff.
C8_MainWritesRetried ==
  (pc = "idle" /\ exc = "database is locked" /\ failed_at \in WriteStatements) =>
     (write_attempts = max_retries /\ main_slept = 1 + 2 + 3 + 4)

SscWritten == Cardinality(db.status_checks) - ssc_rows0

\* C9: a save_status_check call whose third attempt is the first accepted
\* one returns, has slept at least 1+2 seconds and has written exactly one row.
C9_ScenarioD ==
  (ssc_pc = "idle" /\ ssc_path = "written" /\ attempt = 2) =>
     (ssc_result = "returned None" /\ slept >= 1 + 2 /\ SscWritten = 1)

\* the call was accepted on its third attempt
C9_Witness ==
  ssc_pc = "idle" /\ ssc_path = "written" /\ attempt = 2 /\ slept = 3 /\ SscWritten = 1

\* C10: a save_status_check call rejected as busy on all max_retries attempts
\* ends in an outcome other than the normal return of a successful write, and
\* writes no row.
C10_ExhaustionSurfaced ==
  (ssc_pc = "idle" /\ ssc_path = "exhausted") =>
     (ssc_result # "returned None" /\ SscWritten = 0)

\* a check_store_online call has returned
Returned == p_pc = "idle" /\ probed > 0

Rendered == Platform(p_url) = "foodpanda"

\* C11: every browser session a rendered-page probe launched is closed
\* exactly once when check_store_online is left, on the path of a closed
\* indicator, of no indicator and of an exception after the launch; no session
\* is open when the next probe starts, and at most one is open at any time.
C11_SessionClosedOnce ==
  /\ leaked = 0
  /\ leaked + Open(browser) <= 1
  /\ p_pc \in { "load", "inspect" } => browser = [state |-> "open", closes |-> 0]
  /\ Returned =>
       /\ browser.state # "open"
       /\ browser.state = "closed" => browser.closes = 1
       /\ (Rendered /\ p_exc # "launch") => browser.state = "closed"

\* a second probe returned through the handler after its browser was launched
C11_Witness ==
  /\ Returned
  /\ probed = 2
  /\ p_exc \in { "new_page", "goto", "wait_for_timeout", "query_selector" }
  /\ browser = [state |-> "closed", closes |-> 1]

\* the page was fetched: the try block of the foodpanda branch ran to its
\* return, requests.get returned a response that raise_for_status accepted
Fetched ==
  IF Rendered THEN p_exc = None
  ELSE p_page.kind = "response" /\ ~raise_for_status(p_page.status)

\* one of the listed fragments or marker elements is in the rendered page
IndicatorPresent(dom) ==
  \/ \E t \in dom.texts :
        \/ Contains(Lower(t), << "temporarily", "unavailable" >>)
        \/ Contains(Lower(t), << "closed", "for", "now" >>)
        \/ Contains(Lower(t), << "out", "of", "delivery", "area" >>)
        \/ Contains(Lower(t), << "restaurant", "is", "closed" >>)
  \/ << "closed-banner" >> \in dom.classes
  \/ << "closed-banner" >> \in dom.testids

\* the content has a closed-indicator the platform's rule set recognizes
Recognized ==
  IF Rendered THEN IndicatorPresent(p_page)
  ELSE p_page.banner /\ Contains(Lower(p_page.text), << "closed" >>)

\* C12: on both platforms a page that was fetched and has no recognized
\* closed-indicator is classified online with no reason.
C12_SilenceMeansOpen ==
  (Returned /\ Fetched /\ ~Recognized) =>
     (p_result.is_online /\ p_result.error_msg = None /\ p_result.raised = None)

\* a page whose closed wording is not one the rule set of its platform lists
\* was fetched and classified online
C12_Witness ==
  /\ Returned
  /\ Fetched
  /\ ~Recognized
  /\ p_result.is_online
  /\ \/ Rendered /\ p_page = [NoMarks EXCEPT !.texts = @ \cup { << "Store", "closed", "today" >> }]
     \/ ~Rendered /\ p_page.status = 200 /\ p_page.text = << "Temporarily", "unavailable" >>

\* keywords of the static-page rule set as the specification lists them
ClosedKeywords == { << "closed" >>, << "temporarily", "unavailable" >>, << "not", "available" >> }

\* reasons that contain the word closed
ReasonsNamingClosed == { "Status banner shows closed", "Store shows as closed" }

\* C13: a fetched static page is classified offline whenever the text of
\* its status region contains, whatever the case, one of "closed",
\* "temporarily unavailable", "not available"; a region reading "Closed for
\* lunch" gives offline with a reason containing "closed".
C13_KeywordListOffline ==
  (Returned /\ ~Rendered /\ Fetched /\ p_page.banner) =>
     /\ (\E w \in ClosedKeywords : Contains(Lower(p_page.text), w)) => ~p_result.is_online
     /\ p_page.text = << "Closed", "for", "lunch" >> =>
          (~p_result.is_online /\ p_result.error_msg \in ReasonsNamingClosed)

\* the page was loaded: the try block reached the loop over closed_indicators
Loaded == p_exc \in { None, "query_selector" }

\* C14 as stated: a rendered-page probe whose page loaded is offline with
\* reason "store shows as closed" iff an indicator is present, else online.
C14_RenderedRule ==
  (Returned /\ Rendered /\ Loaded) =>
     /\ (~p_result.is_online /\ p_result.error_msg = "store shows as closed")
           <=> IndicatorPresent(p_page)
     /\ ~IndicatorPresent(p_page) => p_result.is_online

\* C14 amended: a rendered-page probe whose try block raised nothing is
\* offline with reason "Store shows as closed" iff one of the closed
\* indicators is in the rendered page, and online with no reason otherwise.
C14_RenderedRuleAsCoded ==
  (Returned /\ Rendered /\ p_exc = None) =>
     /\ (~p_result.is_online /\ p_result.error_msg = "Store shows as closed")
           <=> IndicatorPresent(p_page)
     /\ ~IndicatorPresent(p_page) => (p_result.is_online /\ p_result.error_msg = None)

\* a page whose only mark is the data-testid element was classified closed
C14_Witness ==
  /\ Returned
  /\ Rendered
  /\ p_exc = None
  /\ p_page = [NoMarks EXCEPT !.testids = { << "closed-banner" >> }]
  /\ ~p_result.is_online
  /\ p_result.error_msg = "Store shows as closed"

\* the status_checks rows of the current run, in table d, of the store with url u
UrlChecks(d, u) ==
  { c \in RunChecks(d, run) : \E st \in d.stores : st.url = u /\ st.id = c.store_id }

\* the run recorded the probe of results[k] with reason tag, offline
RecordedHttpError(k, tag) ==
  /\ ~results[k].is_online
  /\ results[k].error_msg = tag
  /\ results[k].response_time >= 0
  /\ \E c \in UrlChecks(conn.view, results[k].url) :
        ~c.is_online /\ c.error_message = tag /\ c.response_time_ms >= 0
  /\ pc = "summary" =>
        \E c \in UrlChecks(db, results[k].url) :
           ~c.is_online /\ c.error_message = tag /\ c.response_time_ms >= 0

ChecksOf(st) == { c \in d_db.status_checks : c.store_id = st.id }

\* C16: the latest-status frame has a row for every store that has a
\* status_checks row, every row is a status_checks row of its store whose
\* checked_at is the largest of that store, a store with no checks has no
\* row, and the frame of an empty database is empty.
C16_LatestStatus ==
  d_loaded = "frames" =>
     /\ \A st \in d_db.stores :
           ChecksOf(st) # {} <=> \E row \in latest_status : row.store_id = st.id
     /\ \A row \in latest_status :
           \E st \in d_db.stores : \E c \in ChecksOf(st) :
              /\ row.store_id = st.id
              /\ row.check_id = c.id
              /\ row.name = st.name /\ row.url = st.url /\ row.platform = st.platform
              /\ row.is_online = c.is_online
              /\ row.checked_at = c.checked_at
              /\ \A x \in ChecksOf(st) : x.checked_at <= row.checked_at
     /\ d_db = EmptyDB => latest_status = {}

\* a store with an older and a newer check, and a store with none
C16_Witness ==
  /\ d_loaded = "frames"
  /\ \E st \in d_db.stores : ChecksOf(st) = {}
  /\ \E row \in latest_status : \E c \in d_db.status_checks :
        c.store_id = row.store_id /\ c.checked_at < row.checked_at

\* the calendar day of t in local time, UTC+8
LocalDay(t) == (t + 8) \div 24

\* the summary_reports rows of the current local day
ReportsToday == { r \in d_db.summary_reports : LocalDay(r.report_time) = LocalDay(now) }

\* C17: the hourly frame holds exactly the summary_reports rows whose
\* report_time is on the current local (UTC+8) calendar day, grouped by hour
\* of day, with the average online_percentage and the number of rows per hour.
C17_HourlyRollup ==
  d_loaded = "frames" =>
     /\ \A r \in ReportsToday : \E h \in hourly_data : h.hour = HourOf(r.report_time)
     /\ \A h \in hourly_data :
           LET rs == { r \in ReportsToday : HourOf(r.report_time) = h.hour }
           IN  /\ rs # {}
               /\ h.data_points = Cardinality(rs)
               /\ h.online_pct = ROUND(SumOf(OnlinePct(rs)), Cardinality(rs))

\* the status_checks rows of store st on the current local day
ChecksToday(st) == { c \in ChecksOf(st) : LocalDay(c.checked_at) = LocalDay(now) }

\* C18: the daily uptime frame has one row per store with a check on the
\* current local (UTC+8) day, with the number of that day's checks, the number
\* of them that are online and round(100*online/checks); a store without a
\* check today has no row.
C18_DailyUptime ==
  d_loaded = "frames" =>
     /\ \A st \in d_db.stores :
           IF ChecksToday(st) = {}
           THEN \A row \in daily_uptime : row.store_id # st.id
           ELSE Cardinality({ row \in daily_uptime : row.store_id = st.id }) = 1
     /\ \A row \in daily_uptime :
           \E st \in d_db.stores :
              LET n == Cardinality(ChecksToday(st))
                  k == Cardinality({ c \in ChecksToday(st) : c.is_online })
              IN  /\ row.store_id = st.id
                  /\ row.name = st.name /\ row.platform = st.platform
                  /\ row.total_checks = n
                  /\ row.online_checks = k
                  /\ n > 0
                  /\ 2 * n * row.uptime_percentage <= 200 * k + n
                  /\ 200 * k + n < 2 * n * (row.uptime_percentage + 1)

\* a store checked only on an earlier local day, next to one checked today
C18_Witness ==
  /\ d_loaded = "frames"
  /\ \E st \in d_db.stores : ChecksOf(st) # {} /\ ChecksToday(st) = {}
  /\ \E row \in daily_uptime : row.total_checks = 3 /\ row.online_checks = 2
                                 /\ row.uptime_percentage = 67

\* C19: in every interleaving of two overlapping invocations of main() that
\* both look up a url not yet in stores, at most one stores row with that url
\* is durable, and no connection sees two stores rows with one url.
C19_NoDuplicateStore ==
  /\ UniqueUrl(db.stores)
  /\ \A p \in Procs : UniqueUrl(RaceView(p).stores)
  /\ \A p \in Procs : \A st \in r_tx[p].stores : r_lock = p

\* both invocations found no row for a url; one made it durable, the INSERT
\* of the other was rejected
C19_Witness ==
  /\ \A p \in Procs : r_pc[p] = "done"
  /\ \E u \in r_missed[1] \cap r_missed[2] :
        /\ Cardinality(SelectStore(db.stores, u)) = 1
        /\ \E p \in Procs : r_exc[p] = "IntegrityError" /\ r_urls[p][r_k[p]] = u

\* C20: main() ends without an uncaught exception for every url list, the
\* empty one included, and wherever a database operation fails, the connect
\* included: the statements after the try run to completion.
C20_MainAlwaysReturns ==
  (pc = "idle" /\ run > 0) => outcome = "returned"

\* C21: the latest-status frame has at most one row per store, also when two
\* status_checks rows of a store have the same checked_at.
C21_OneLatestRowPerStore ==
  d_loaded = "frames" =>
     \A st \in d_db.stores :
        Cardinality({ row \in latest_status : row.store_id = st.id }) <= 1

\* C22: whatever path check_store_online returns on, is_online is true
\* exactly when error_message is None, an offline result has an
\* error_message, and response_time is a non-negative integer.
C22_ResultConsistent ==
  Returned =>
     /\ p_result.raised = None
     /\ p_result.is_online <=> p_result.error_msg = None
     /\ ~p_result.is_online => p_result.error_msg # None
     /\ p_result.response_time \in Nat

\* a static-page probe that timed out returned offline with the exception
\* text and the ten seconds it waited
C22_Witness ==
  /\ Returned
  /\ ~Rendered
  /\ p_page.kind = "timeout"
  /\ ~p_result.is_online
  /\ p_result.error_msg = "ReadTimeout"
  /\ p_result.response_time = 10000

\* C23: save_status_check leaves no connection open: the connection of an
\* attempt is closed before the next attempt opens one and before the call
\* returns, after a write, after a rejected attempt that is retried and
\* after the final failure.
C23_NoConnectionLeftOpen ==
  /\ ssc_pc = "loop" => ssc_conn # "open"
  /\ ssc_pc = "idle" => (ssc_conn # "open" /\ ssc_leaked = 0)

\* 1 + 2 + ... + k
SumTo(k) == (k * (k + 1)) \div 2

\* C24: save_status_check makes at most max_retries attempts; an attempt is
\* followed by another one only after "database is locked", and the sleep
\* before attempt k+1 is k seconds; any other OperationalError ends the call
\* with no further attempt and no sleep; a call rejected max_retries times
\* has slept 1+2+3+4 seconds, none of them after the last rejection.
C24_RetryDiscipline ==
  /\ attempt < max_retries
  /\ slept = SumTo(attempt)
  /\ (ssc_pc = "loop" /\ attempt > 0) => ssc_exc = "database is locked"
  /\ (ssc_pc = "idle" /\ ssc_path = "error") =>
        (ssc_exc # "database is locked" /\ ssc_exc # None)
  /\ (ssc_pc = "idle" /\ ssc_path = "exhausted") =>
        /\ ssc_exc = "database is locked"
        /\ attempt = max_retries - 1
        /\ slept = 1 + 2 + 3 + 4

\* a call was rejected as locked on all of its attempts
C24_Witness ==
  /\ ssc_pc = "idle"
  /\ ssc_path = "exhausted"
  /\ attempt = 4
  /\ slept = 10
  /\ SscWritten = 0

====
